---- MODULE Spec2Model ----
(***************************************************************************)
(* Model of cpp_codegen.py: the type-graph traversal of TypeVisitor and    *)
(* CppTypeMacroGenerator (visited set, five collections, model-ID          *)
(* allocator) and the enumeration member naming of CppEnumTranslator.      *)
(*                                                                         *)
(* A type is an identity 1..MaxTypes (dedup in the visited set is by       *)
(* object identity); the resolver maps each identity to its shape.  The    *)
(* recursion of visit() is an explicit stack of frames, one frame per      *)
(* active call that is iterating over its sub-types.                       *)
(*                                                                         *)
(* Every collection entry carries, besides the fields the code appends, a  *)
(* history field src: the type object the entry was appended for.          *)
(*                                                                         *)
(* The schemas are those on which _cpp_name returns: no union or sequence  *)
(* contains itself through unions and sequences alone.                     *)
(***************************************************************************)
EXTENDS Integers, Sequences, FiniteSets, TLC

\* ---------------------------------------------------------------- bounds
MaxTypes == 3       \* number of type objects the resolver holds
MaxEdges == 3       \* total number of sub-type references in the schema
MaxEdgesSmall == 2  \* the same, for the specifications with more steps
MaxProbes == 1      \* direct _get_insert_model_id calls after a traversal
MaxReruns == 1      \* further generate() runs after the first
MaxLen == 2         \* length of an enumeration value
MaxValues == 2      \* number of values of an enumeration

\* ------------------------------------------------------- program constants
Root == 1           \* resolver.interfaces['Script']
GenerateFrame == 0  \* the frame of generate(), whose one callee is visit(Root)
ListLength == 0     \* the 'list-length' discriminator of a sequence's key

Types == 1..MaxTypes

Range(f) == {f[i] : i \in DOMAIN f}

Min(a, b) == IF a < b THEN a ELSE b

LeafKinds == {"TyEnum", "TyPrimitive", "TyNone", "TyOther"}

Kinds == {"TyInterface", "Alt", "TyFrozenArray"} \cup LeafKinds

\* Declared names (ty.name) of the type objects.  Types 2 and 3 are declared
\* separately under one name, as are types 4 and 5.
NameTable == <<"Script", "T", "T", "U", "U", "V">>

VARIABLES
  resolver,        \* Types -> [kind, kids]: the schema, read-only
  pc,              \* "new" (constructed), "run" (inside generate), "done"
  stack,           \* frames [ty, idx] of the active visit() calls
  visited_types,   \* TypeVisitor.visited_types
  interfaces, alts, enums, primitives, frozen_arrays,
  model_ids, next_model_id,
  last_key, last_ret, ncalls,   \* the last direct _get_insert_model_id call
  runs, prev,      \* completed generate() runs and the result of the last one
  ty_values,       \* gen_enum: ty.values
  sorted_values,   \* gen_enum: the local list values = sorted(ty.values)
  members,         \* gen_enum: the member names, in emission order
  emitted          \* gen_enum has returned

colls == <<interfaces, alts, enums, primitives, frozen_arrays>>
alloc == <<model_ids, next_model_id>>
probe == <<last_key, last_ret, ncalls>>
hist == <<runs, prev>>
enumv == <<ty_values, sorted_values, members, emitted>>

vars == <<resolver, pc, stack, visited_types, colls, alloc, probe, hist, enumv>>

\* ------------------------------------------------------------ the schema
RECURSIVE Total(_, _)
Total(kc, n) == IF n = 0 THEN 0 ELSE kc[n] + Total(kc, n - 1)

\* How many sub-type references each type holds.
KidCounts(e) == {kc \in [Types -> 0..e] : Total(kc, MaxTypes) <= e}

\* resolver.interfaces['Script'] is an interface.
KindChoices == {kd \in [Types -> Kinds] : kd[Root] = "TyInterface"}

\* A union has at least one member; a sequence has exactly one element.
Fits(kd, kc) ==
  \A t \in Types :
    /\ kd[t] \in LeafKinds => kc[t] = 0
    /\ kd[t] = "TyFrozenArray" => kc[t] = 1
    /\ kd[t] = "Alt" => kc[t] >= 1

\* The schema with kinds kd whose references, type by type, are the list tg.
MakeSchema(kd, kc, tg) ==
  [t \in Types |->
     [kind |-> kd[t], kids |-> [j \in 1..kc[t] |-> tg[Total(kc, t - 1) + j]]]]

KidSet(g, t) == {g[t].kids[j] : j \in 1..Len(g[t].kids)}

\* A synthesized name is finite only if no union or sequence contains itself
\* through unions and sequences alone.
RECURSIVE AnonReach(_, _, _)
AnonReach(g, frontier, seen) ==
  IF frontier \subseteq seen THEN seen
  ELSE LET new == frontier \ seen
           nxt == UNION {KidSet(g, t) : t \in new}
       IN AnonReach(g, {u \in nxt : g[u].kind \in {"Alt", "TyFrozenArray"}},
                    seen \cup new)

NamesFinite(g) ==
  \A t \in Types : g[t].kind \in {"Alt", "TyFrozenArray"} =>
     t \notin AnonReach(g, {u \in KidSet(g, t) : g[u].kind \in {"Alt", "TyFrozenArray"}}, {})

\* The types reachable from the types in frontier through sub-type references.
RECURSIVE Reach(_, _, _)
Reach(g, frontier, seen) ==
  IF frontier \subseteq seen THEN seen
  ELSE LET new == frontier \ seen
       IN Reach(g, UNION {KidSet(g, t) : t \in new}, seen \cup new)

\* The traversal never reads the shape of a type it does not reach: such
\* types are kept in one shape, a primitive.
UnreachedPlain(g) ==
  \A t \in Types \ Reach(g, {Root}, {}) : g[t].kind = "TyPrimitive"

IsSchema(g) == NamesFinite(g) /\ UnreachedPlain(g)

PlainSchema ==
  [t \in Types |-> [kind |-> IF t = Root THEN "TyInterface" ELSE "TyPrimitive",
                    kids |-> <<>>]]

Kind(ty) == resolver[ty].kind

\* ty.attrs of an interface: the j-th attribute is named j.
Attrs(ty) ==
  [j \in 1..Len(resolver[ty].kids) |->
     [name |-> j, resolved_ty |-> resolver[ty].kids[j], lazy |-> (j % 2 = 0)]]

\* Mutant: the loops of visit() run over the sub-types last to first.
ChildrenReversed(ty) ==
  LET ks == IF ty = GenerateFrame THEN <<Root>> ELSE resolver[ty].kids
  IN [j \in 1..Len(ks) |-> ks[Len(ks) + 1 - j]]

\* The sub-types visit() recurses into, in the order of its loops.
Children(ty) ==
  IF ty = GenerateFrame THEN <<Root>>
  ELSE IF Kind(ty) = "TyInterface"
    THEN [j \in 1..Len(Attrs(ty)) |-> Attrs(ty)[j].resolved_ty]
  ELSE IF Kind(ty) \in {"Alt", "TyFrozenArray"} THEN resolver[ty].kids
  ELSE <<>>

\* -------------------------------------------------------------- _cpp_name
RECURSIVE Join(_, _)
Join(sep, parts) ==
  IF parts = <<>> THEN <<>>
  ELSE IF Len(parts) = 1 THEN parts[1]
  ELSE parts[1] \o <<sep>> \o Join(sep, Tail(parts))

RECURSIVE _cpp_name(_)
_cpp_name(ty) ==
  IF Kind(ty) = "Alt"
    THEN Join("Or", [j \in 1..Len(resolver[ty].kids) |-> _cpp_name(resolver[ty].kids[j])])
  ELSE IF Kind(ty) = "TyFrozenArray"
    THEN <<"FrozenArray_">> \o _cpp_name(resolver[ty].kids[1])
  ELSE IF Kind(ty) = "TyNone" THEN <<"None">>
  ELSE <<NameTable[ty]>>

\* --------------------------------------------------- _get_insert_model_id
\* The allocator state is [ids, next]; the result adds the returned ID.
\* Mutant: the key is not looked up, every call allocates.
AlwaysInsertModelId(st, k) ==
  [ids |-> [x \in DOMAIN st.ids \cup {k} |-> IF x = k THEN st.next ELSE st.ids[x]],
   next |-> st.next + 1, ret |-> st.next]

_get_insert_model_id(st, k) ==
  IF k \in DOMAIN st.ids
    THEN [ids |-> st.ids, next |-> st.next, ret |-> st.ids[k]]
  ELSE [ids |-> st.ids @@ (k :> st.next), next |-> st.next + 1, ret |-> st.next]

\* ------------------------------------------------------- visit_*_type
\* The loop of visit_interface_type over ty.attrs, from attribute j on.
RECURSIVE InterfaceFields(_, _, _, _)
InterfaceFields(ty, j, st, fields) ==
  IF j > Len(Attrs(ty)) THEN [ids |-> st.ids, next |-> st.next, fields |-> fields]
  ELSE LET attr == Attrs(ty)[j]
           r == _get_insert_model_id(st, <<ty, attr.name>>)
       IN InterfaceFields(ty, j + 1, r,
            Append(fields, <<attr.name, _cpp_name(attr.resolved_ty), attr.lazy, r.ret>>))

\* ------------------------------------------------------------- visit
\* Mutant: visit() has no early return.
IsVisitedNever(ty) == FALSE

IsVisited(ty) == ty \in visited_types

\* Mutant: only interfaces are recorded in the visited set.
AddVisitedInterfacesOnly(ty) ==
  IF Kind(ty) = "TyInterface" THEN visited_types \cup {ty} ELSE visited_types

\* Mutant: unions are not recorded in the visited set.
AddVisitedExceptAlt(ty) ==
  IF Kind(ty) = "Alt" THEN visited_types ELSE visited_types \cup {ty}

AddVisited(ty) == visited_types \cup {ty}

Top == stack[Len(stack)]

Callee == Children(Top.ty)[Top.idx]

InCall == pc = "run" /\ stack # <<>> /\ Top.idx <= Len(Children(Top.ty))

\* The caller's loop moves on to its next sub-type.
Advanced == [stack EXCEPT ![Len(stack)].idx = @ + 1]

\* The state of a generator object after __init__.
Constructed ==
  /\ pc = "new"
  /\ stack = <<>>
  /\ visited_types = {}
  /\ interfaces = <<>> /\ alts = <<>> /\ enums = <<>>
  /\ primitives = <<>> /\ frozen_arrays = <<>>
  /\ model_ids = <<>> /\ next_model_id = 0
  /\ last_key = <<Root, ListLength>> /\ last_ret = 0 /\ ncalls = 0

NoResult ==
  [interfaces |-> <<>>, alts |-> <<>>, enums |-> <<>>, primitives |-> <<>>,
   frozen_arrays |-> <<>>, model_ids |-> <<>>]

EnumIdle ==
  ty_values = {} /\ sorted_values = <<>> /\ members = <<>> /\ emitted = FALSE

\* The resolver holds a schema with at most e sub-type references.
SchemaInit(e) ==
  \E kc \in KidCounts(e) : \E kd \in KindChoices :
    /\ Fits(kd, kc)
    /\ \E tg \in [1..Total(kc, MaxTypes) -> Types] :
         LET g == MakeSchema(kd, kc, tg)
         IN IsSchema(g) /\ resolver = g

Init ==
  /\ SchemaInit(MaxEdges)
  /\ Constructed
  /\ runs = 0 /\ prev = NoResult
  /\ EnumIdle

\* generate() up to its call of visit(Root).
GenerateBody ==
  /\ interfaces' = <<>> /\ alts' = <<>> /\ enums' = <<>>
  /\ primitives' = <<>> /\ frozen_arrays' = <<>>
  /\ model_ids' = <<>> /\ next_model_id' = 0
  /\ stack' = <<[ty |-> GenerateFrame, idx |-> 1]>>
  /\ pc' = "run"
  /\ UNCHANGED <<resolver, visited_types, probe, enumv>>

Generate ==
  /\ pc = "new"
  /\ GenerateBody
  /\ UNCHANGED hist

VisitSeen ==
  /\ InCall /\ IsVisited(Callee)
  /\ stack' = Advanced
  /\ UNCHANGED <<resolver, pc, visited_types, colls, alloc, probe, hist, enumv>>

VisitInterface ==
  /\ InCall /\ ~IsVisited(Callee) /\ Kind(Callee) = "TyInterface"
  /\ visited_types' = AddVisited(Callee)
  /\ LET r == InterfaceFields(Callee, 1, [ids |-> model_ids, next |-> next_model_id], <<>>)
     IN /\ model_ids' = r.ids
        /\ next_model_id' = r.next
        /\ interfaces' = Append(interfaces,
              [src |-> Callee, name |-> _cpp_name(Callee), fields |-> r.fields])
  /\ stack' = Append(Advanced, [ty |-> Callee, idx |-> 1])
  /\ UNCHANGED <<resolver, pc, alts, enums, primitives, frozen_arrays,
                 probe, hist, enumv>>

VisitAlt ==
  /\ InCall /\ ~IsVisited(Callee) /\ Kind(Callee) = "Alt"
  /\ visited_types' = AddVisited(Callee)
  /\ alts' = Append(alts,
        [src |-> Callee, name |-> _cpp_name(Callee),
         subtys |-> [j \in 1..Len(resolver[Callee].kids) |->
                       _cpp_name(resolver[Callee].kids[j])]])
  /\ stack' = Append(Advanced, [ty |-> Callee, idx |-> 1])
  /\ UNCHANGED <<resolver, pc, interfaces, enums, primitives, frozen_arrays,
                 alloc, probe, hist, enumv>>

VisitEnum ==
  /\ InCall /\ ~IsVisited(Callee) /\ Kind(Callee) = "TyEnum"
  /\ visited_types' = AddVisited(Callee)
  /\ enums' = Append(enums, [src |-> Callee, name |-> _cpp_name(Callee)])
  /\ stack' = Advanced
  /\ UNCHANGED <<resolver, pc, interfaces, alts, primitives, frozen_arrays,
                 alloc, probe, hist, enumv>>

VisitPrimitive ==
  /\ InCall /\ ~IsVisited(Callee) /\ Kind(Callee) = "TyPrimitive"
  /\ visited_types' = AddVisited(Callee)
  /\ primitives' = Append(primitives, [src |-> Callee, name |-> _cpp_name(Callee)])
  /\ stack' = Advanced
  /\ UNCHANGED <<resolver, pc, interfaces, alts, enums, frozen_arrays,
                 alloc, probe, hist, enumv>>

VisitFrozenArray ==
  /\ InCall /\ ~IsVisited(Callee) /\ Kind(Callee) = "TyFrozenArray"
  /\ visited_types' = AddVisited(Callee)
  /\ LET r == _get_insert_model_id([ids |-> model_ids, next |-> next_model_id],
                                   <<Callee, ListLength>>)
     IN /\ model_ids' = r.ids
        /\ next_model_id' = r.next
        /\ frozen_arrays' = Append(frozen_arrays,
              [src |-> Callee, name |-> _cpp_name(Callee),
               elem |-> _cpp_name(resolver[Callee].kids[1]), model_id |-> r.ret])
  /\ stack' = Append(Advanced, [ty |-> Callee, idx |-> 1])
  /\ UNCHANGED <<resolver, pc, interfaces, alts, enums, primitives,
                 probe, hist, enumv>>

\* No branch of the if/elif chain matches: visit() falls off its end.
VisitNoBranch ==
  /\ InCall /\ ~IsVisited(Callee) /\ Kind(Callee) \in {"TyNone", "TyOther"}
  /\ visited_types' = AddVisited(Callee)
  /\ stack' = Advanced
  /\ UNCHANGED <<resolver, pc, colls, alloc, probe, hist, enumv>>

\* The loop of the top frame is exhausted: the call returns to its caller.
Return ==
  /\ pc = "run" /\ stack # <<>> /\ Top.idx > Len(Children(Top.ty))
  /\ stack' = SubSeq(stack, 1, Len(stack) - 1)
  /\ pc' = IF Len(stack) = 1 THEN "done" ELSE "run"
  /\ UNCHANGED <<resolver, visited_types, colls, alloc, probe, hist, enumv>>

Next ==
  \/ Generate
  \/ VisitSeen
  \/ VisitInterface
  \/ VisitAlt
  \/ VisitEnum
  \/ VisitPrimitive
  \/ VisitFrozenArray
  \/ VisitNoBranch
  \/ Return

Spec == Init /\ [][Next]_vars

InitSmall ==
  /\ SchemaInit(MaxEdgesSmall)
  /\ Constructed
  /\ runs = 0 /\ prev = NoResult
  /\ EnumIdle

\* visit() is synchronous: a call that can take a step takes it.
SpecFair == InitSmall /\ [][Next]_vars /\ WF_vars(Next)

\* ------------------------------------------------------ CppEnumTranslator
\* A string is the sequence of the code points of its characters.
\* The characters of the enumeration values: space, '+', '-', 'a'.
Alphabet == {32, 43, 45, 97}

Strings == UNION {[1..n -> Alphabet] : n \in 0..MaxLen}

\* The enumeration {"b", "a-c", "+"}.
DocEnum == {<<98>>, <<97, 45, 99>>, <<43>>}

\* SYMBOL_NAMES, each character with its name:
\*    43 +  PLUS
\*    45 -  MINUS
\*    61 =  EQUAL
\*    47 /  SLASH
\*    42 *  STAR
\*    60 <  LESS
\*    62 >  GREATER
\*   124 |  PIPE
\*    94 ^  HAT
\*    38 &  AND
\*    44 ,  COMMA
\*    33 !  BANG
\*    37 %  PCT
\*   126 ~  TILDE
SYMBOL_NAMES ==
  43 :> <<80, 76, 85, 83>> @@
  45 :> <<77, 73, 78, 85, 83>> @@
  61 :> <<69, 81, 85, 65, 76>> @@
  47 :> <<83, 76, 65, 83, 72>> @@
  42 :> <<83, 84, 65, 82>> @@
  60 :> <<76, 69, 83, 83>> @@
  62 :> <<71, 82, 69, 65, 84, 69, 82>> @@
  124 :> <<80, 73, 80, 69>> @@
  94 :> <<72, 65, 84>> @@
  38 :> <<65, 78, 68>> @@
  44 :> <<67, 79, 77, 77, 65>> @@
  33 :> <<66, 65, 78, 71>> @@
  37 :> <<80, 67, 84>> @@
  126 :> <<84, 73, 76, 68, 69>>

\* str.upper() on one character.
UpperChar(c) == IF c >= 97 /\ c <= 122 THEN c - 32 ELSE c

upper(v) == [i \in 1..Len(v) |-> UpperChar(v[i])]

\* Mutant: re.sub('[- ]+', '_', v), a run of spaces and hyphens replaced by
\* one underscore.
RECURSIVE re_sub_runs(_)
re_sub_runs(v) ==
  IF v = <<>> THEN <<>>
  ELSE IF v[1] \in {45, 32}
    THEN IF Len(v) > 1 /\ v[2] \in {45, 32} THEN re_sub_runs(Tail(v))
         ELSE <<95>> \o re_sub_runs(Tail(v))
  ELSE <<v[1]>> \o re_sub_runs(Tail(v))

\* re.sub('[- ]', '_', v): every match of the one-character pattern, left to
\* right, is replaced by an underscore.
RECURSIVE re_sub(_)
re_sub(v) ==
  IF v = <<>> THEN <<>>
  ELSE <<IF v[1] \in {45, 32} THEN 95 ELSE v[1]>> \o re_sub(Tail(v))

\* '_'.join(parts)
RECURSIVE join(_)
join(parts) ==
  IF parts = <<>> THEN <<>>
  ELSE IF Len(parts) = 1 THEN parts[1]
  ELSE parts[1] \o <<95>> \o join(Tail(parts))

make_name(v) ==
  LET specials == DOMAIN SYMBOL_NAMES
      chs == {v[i] : i \in 1..Len(v)}
  IN IF chs \ specials # {} THEN upper(re_sub(v))
     ELSE join([i \in 1..Len(v) |-> SYMBOL_NAMES[v[i]]])

\* The order of str: by code point at the first difference, a proper prefix
\* first.
RECURSIVE StrLess(_, _)
StrLess(a, b) ==
  IF b = <<>> THEN FALSE
  ELSE IF a = <<>> THEN TRUE
  ELSE IF a[1] # b[1] THEN a[1] < b[1]
  ELSE StrLess(Tail(a), Tail(b))

\* Mutant: sorted(ty.values, key=make_name).
RECURSIVE sorted_by_name(_)
sorted_by_name(S) ==
  IF S = {} THEN <<>>
  ELSE LET m == CHOOSE x \in S : \A y \in S : ~StrLess(make_name(y), make_name(x))
       IN <<m>> \o sorted_by_name(S \ {m})

\* sorted(S) for a set of strings.
RECURSIVE sorted(_)
sorted(S) ==
  IF S = {} THEN <<>>
  ELSE LET m == CHOOSE x \in S : \A y \in S : ~StrLess(y, x)
       IN <<m>> \o sorted(S \ {m})

InitEnum ==
  /\ resolver = PlainSchema
  /\ Constructed
  /\ runs = 0 /\ prev = NoResult
  /\ ty_values \in {Range(f) : f \in UNION {[1..n -> Strings] : n \in 0..MaxValues}}
                   \cup {DocEnum}
  /\ sorted_values = <<>> /\ members = <<>> /\ emitted = FALSE

gen_enum ==
  /\ ~emitted
  /\ sorted_values' = sorted(ty_values)
  /\ members' = [i \in 1..Len(sorted(ty_values)) |-> make_name(sorted(ty_values)[i])]
  /\ emitted' = TRUE
  /\ UNCHANGED <<resolver, pc, stack, visited_types, colls, alloc, probe, hist,
                 ty_values>>

NextEnum == gen_enum

SpecEnum == InitEnum /\ [][NextEnum]_vars

\* --------------------------------------------- the allocator, called directly
\* The keys a caller asks for once the traversal has returned: an attribute
\* of Root, the length of a sequence, and keys the traversal never saw.
ProbeKeys == {<<t, d>> : t \in {Root, MaxTypes}, d \in {ListLength, 1}}

Probe(k) ==
  /\ pc = "done" /\ ncalls < MaxProbes
  /\ LET r == _get_insert_model_id([ids |-> model_ids, next |-> next_model_id], k)
     IN /\ model_ids' = r.ids
        /\ next_model_id' = r.next
        /\ last_ret' = r.ret
  /\ last_key' = k
  /\ ncalls' = ncalls + 1
  /\ UNCHANGED <<resolver, pc, stack, visited_types, colls, hist, enumv>>

ProbeAny == \E k \in ProbeKeys : Probe(k)

NextAlloc == Next \/ ProbeAny

SpecAlloc == InitSmall /\ [][NextAlloc]_vars

\* ------------------------------------------------- generate(), run again
Result ==
  [interfaces |-> interfaces, alts |-> alts, enums |-> enums,
   primitives |-> primitives, frozen_arrays |-> frozen_arrays,
   model_ids |-> model_ids]

\* generate() is called again on the same generator object.
Regenerate ==
  /\ pc = "done" /\ runs < MaxReruns
  /\ runs' = runs + 1
  /\ prev' = Result
  /\ GenerateBody

\* A second generator object is constructed for the same resolver.
NewGenerator ==
  /\ pc = "done" /\ runs < MaxReruns
  /\ runs' = runs + 1
  /\ prev' = Result
  /\ pc' = "new"
  /\ stack' = <<>>
  /\ visited_types' = {}
  /\ interfaces' = <<>> /\ alts' = <<>> /\ enums' = <<>>
  /\ primitives' = <<>> /\ frozen_arrays' = <<>>
  /\ model_ids' = <<>> /\ next_model_id' = 0
  /\ UNCHANGED <<resolver, probe, enumv>>

NextRegen == Next \/ Regenerate \/ NewGenerator

SpecRegen == Init /\ [][NextRegen]_vars

\* ---------------------------------------------------------------- claims
Reachable == Reach(resolver, {Root}, {})

\* The collection that holds the entries of the types of kind k.
Collection(k) ==
  CASE k = "TyInterface" -> interfaces
    [] k = "Alt" -> alts
    [] k = "TyEnum" -> enums
    [] k = "TyPrimitive" -> primitives
    [] k = "TyFrozenArray" -> frozen_arrays
    [] OTHER -> <<>>

CollectedKinds == {"TyInterface", "Alt", "TyEnum", "TyPrimitive", "TyFrozenArray"}

\* The positions of the entries that type t has in the collection of kind k.
EntriesOf(k, t) == {i \in 1..Len(Collection(k)) : Collection(k)[i].src = t}

\* C1: after visit(Root) has returned, every reachable type of a collected
\* kind has exactly one entry in the collection of its kind and none in the
\* others, no other type has an entry, and an interface's entry lists one
\* field per attribute, each with the synthesized name of the attribute's type.
C1_OneEntryPerReachableType ==
  pc = "done" =>
    /\ LET reached == Reachable
       IN \A t \in Types : \A k \in CollectedKinds :
            Cardinality(EntriesOf(k, t)) =
              IF t \in reached /\ Kind(t) = k THEN 1 ELSE 0
    /\ \A i \in 1..Len(interfaces) :
         LET kids == resolver[interfaces[i].src].kids
         IN /\ Len(interfaces[i].fields) = Len(kids)
            /\ \A j \in 1..Len(kids) :
                 interfaces[i].fields[j][2] = _cpp_name(kids[j])

\* Interface Root has two attributes both typed as one other interface.
C1_Witness ==
  /\ pc = "done"
  /\ Len(resolver[Root].kids) = 2
  /\ resolver[Root].kids[1] = resolver[Root].kids[2]
  /\ resolver[Root].kids[1] # Root
  /\ Kind(resolver[Root].kids[1]) = "TyInterface"
  /\ Len(interfaces) = 2
  /\ Len(interfaces[1].fields) = 2
  /\ Reachable # Types

\* The types that lie on a cycle of sub-type references reachable from Root.
OnCycle == {t \in Reachable : t \in Reach(resolver, KidSet(resolver, t), {})}

TimesProcessed(t) ==
  Cardinality(EntriesOf("TyInterface", t)) + Cardinality(EntriesOf("Alt", t))
    + Cardinality(EntriesOf("TyEnum", t)) + Cardinality(EntriesOf("TyPrimitive", t))
    + Cardinality(EntriesOf("TyFrozenArray", t))

RECURSIVE Walk(_, _)
RECURSIVE WalkKids(_, _, _)
Walk(t, order) ==
  IF t \in Range(order) THEN order
  ELSE WalkKids(resolver[t].kids, 1, Append(order, t))
WalkKids(ks, j, order) ==
  IF j > Len(ks) THEN order ELSE WalkKids(ks, j + 1, Walk(ks[j], order))

PreOrder == Walk(Root, <<>>)

RECURSIVE OfKind(_, _)
OfKind(order, k) ==
  IF order = <<>> THEN <<>>
  ELSE IF Kind(order[1]) = k THEN <<order[1]>> \o OfKind(Tail(order), k)
  ELSE OfKind(Tail(order), k)

Sources(coll) == [i \in 1..Len(coll) |-> coll[i].src]

IsPrefix(a, b) == Len(a) <= Len(b) /\ a = SubSeq(b, 1, Len(a))

\* C3: the entries of each collection are, at every moment, the first types
\* of its kind in pre-order depth-first first-reach order, and after the
\* traversal they are all of them, in that order.
C3_PreOrder ==
  LET order == PreOrder
  IN \A k \in CollectedKinds :
       LET expected == OfKind(order, k)
       IN /\ IsPrefix(Sources(Collection(k)), expected)
          /\ pc = "done" => Sources(Collection(k)) = expected

\* Root has two interface attributes, and the first has the second as its
\* own attribute: the second is first reached through the first, and the
\* three entries are in first-reach order.
C3_Witness ==
  /\ pc = "done"
  /\ Len(resolver[Root].kids) = 2
  /\ resolver[Root].kids[1] # resolver[Root].kids[2]
  /\ Root \notin KidSet(resolver, Root)
  /\ resolver[Root].kids[2] \in KidSet(resolver, resolver[Root].kids[1])
  /\ Sources(interfaces) = <<Root, resolver[Root].kids[1], resolver[Root].kids[2]>>

\* C4, as stated: no two entries of one collection carry the same synthesized
\* name.
C4_NoDuplicateNames ==
  \A k \in CollectedKinds :
    \A i, j \in 1..Len(Collection(k)) :
      i # j => Collection(k)[i].name # Collection(k)[j].name

\* C4, amended: no two entries of one collection come from the same type, and
\* every entry carries the synthesized name of its type, so that two entries
\* carry the same name exactly when distinct types synthesize the same name.
C4_NoDuplicateTypes ==
  \A k \in CollectedKinds :
    /\ \A i, j \in 1..Len(Collection(k)) :
         i # j => Collection(k)[i].src # Collection(k)[j].src
    /\ \A i \in 1..Len(Collection(k)) :
         Collection(k)[i].name = _cpp_name(Collection(k)[i].src)

\* Two separately declared types of one kind with one synthesized name have
\* both been collected.
C4_Witness ==
  /\ pc = "done"
  /\ \E k \in CollectedKinds : \E i, j \in 1..Len(Collection(k)) :
       /\ i # j
       /\ Collection(k)[i].src # Collection(k)[j].src
       /\ Collection(k)[i].name = Collection(k)[j].name

\* C5: the key-to-ID map is an injection onto 0..n-1 for its n keys and the
\* counter is n; a recorded ID is never changed or dropped by a later call;
\* and a direct call with a key already recorded returns the recorded ID and
\* leaves the map and the counter unchanged.
C5_Dense ==
  /\ \A k1, k2 \in DOMAIN model_ids : model_ids[k1] = model_ids[k2] => k1 = k2
  /\ Range(model_ids) = 0..(Cardinality(DOMAIN model_ids) - 1)
  /\ next_model_id = Cardinality(DOMAIN model_ids)

C5_Stable ==
  \A k \in DOMAIN model_ids :
    k \in DOMAIN model_ids' /\ model_ids'[k] = model_ids[k]

C5_HitUnchanged ==
  (ncalls' = ncalls + 1 /\ last_key' \in DOMAIN model_ids) =>
    /\ last_ret' = model_ids[last_key']
    /\ model_ids' = model_ids
    /\ next_model_id' = next_model_id

C5_Allocator == []C5_Dense /\ [][C5_Stable /\ C5_HitUnchanged]_vars

\* A direct call has returned an ID that is not the newest one: its key had
\* been recorded before.
C5_Witness ==
  /\ ncalls >= 1
  /\ last_ret + 1 < next_model_id
  /\ model_ids[last_key] = last_ret

\* C6: a second generate() run over the same schema, on a second generator
\* object or on the same one, ends with the collections and the key-to-ID map
\* of the first.
C6_Deterministic ==
  (pc = "done" /\ runs >= 1) => Result = prev

\* C7: once visit() has been called on a type whose variant is outside the
\* closed set, the run is in a fatal state.
C7_UnknownVariantFatal ==
  (\E t \in visited_types : Kind(t) = "TyOther") => pc = "fatal"

\* The order claimed for the raw values: a is before b when a is a proper
\* prefix of b or holds the smaller code point where they first differ.
LexBefore(a, b) ==
  \E k \in 0..Min(Len(a), Len(b)) :
    /\ \A i \in 1..k : a[i] = b[i]
    /\ \/ k = Len(a) /\ k < Len(b)
       \/ k < Len(a) /\ k < Len(b) /\ a[k + 1] < b[k + 1]

\* C8: gen_enum emits one member per value, and the member at position i is
\* the name derived from the value with exactly i-1 values before it in the
\* lexicographic order of the raw values.
C8_SortedByRawValue ==
  emitted =>
    /\ Len(members) = Cardinality(ty_values)
    /\ \A v \in ty_values :
         members[1 + Cardinality({w \in ty_values : LexBefore(w, v)})] = make_name(v)

\* The values {"b", "a-c", "+"} have been emitted as PLUS, A_C, B.
C8_Witness ==
  /\ emitted
  /\ ty_values = DocEnum
  /\ members = <<<<80, 76, 85, 83>>, <<65, 95, 67>>, <<66>>>>

\* An identifier-safe name: a non-empty string of A-Z, 0-9 and underscore.
IdentifierSafe(n) ==
  /\ n # <<>>
  /\ \A i \in 1..Len(n) :
       \/ n[i] >= 65 /\ n[i] <= 90
       \/ n[i] >= 48 /\ n[i] <= 57
       \/ n[i] = 95

\* C9: the member names of one enumeration are pairwise distinct and each is
\* identifier-safe.
C9_UniqueSafeNames ==
  emitted =>
    /\ \A i, j \in 1..Len(members) : i # j => members[i] # members[j]
    /\ \A i \in 1..Len(members) : IdentifierSafe(members[i])

HasPlainChar(v) == \E i \in 1..Len(v) : v[i] \notin DOMAIN SYMBOL_NAMES

\* The underscore-joined table names of the characters of v, built from the
\* last character backwards.
RECURSIVE SymbolName(_, _)
SymbolName(v, n) ==
  IF n = 0 THEN <<>>
  ELSE IF n = 1 THEN SYMBOL_NAMES[v[1]]
  ELSE SymbolName(v, n - 1) \o <<95>> \o SYMBOL_NAMES[v[n]]

\* v with every maximal run of spaces and hyphens replaced by one underscore.
RunsCollapsed(v) ==
  LET keep == {i \in 1..Len(v) : ~(v[i] \in {32, 45} /\ i > 1 /\ v[i - 1] \in {32, 45})}
      pos(n) == CHOOSE i \in keep : Cardinality({j \in keep : j < i}) = n - 1
  IN [n \in 1..Cardinality(keep) |->
        IF v[pos(n)] \in {32, 45} THEN 95 ELSE UpperChar(v[pos(n)])]

\* C10, as stated: a value with a character outside the table yields the
\* value with each run of spaces and hyphens replaced by one underscore,
\* uppercased; a value of table symbols yields their joined table names.
C10_RunsReplaced ==
  emitted =>
    \A i \in 1..Len(members) :
      members[i] = IF HasPlainChar(sorted_values[i])
                     THEN RunsCollapsed(sorted_values[i])
                   ELSE SymbolName(sorted_values[i], Len(sorted_values[i]))

\* C10, amended: a value with a character outside the table yields the value
\* with each single space or hyphen replaced by an underscore, uppercased,
\* so the name is as long as the value; a value of table symbols yields
\* their joined table names.
C10_EachReplaced ==
  emitted =>
    \A i \in 1..Len(members) :
      LET v == sorted_values[i]
      IN IF HasPlainChar(v)
           THEN /\ Len(members[i]) = Len(v)
                /\ \A j \in 1..Len(v) :
                     members[i][j] = IF v[j] \in {32, 45} THEN 95 ELSE UpperChar(v[j])
         ELSE members[i] = SymbolName(v, Len(v))

\* A value with two adjacent space or hyphen characters and a character
\* outside the table has been named, and so has a value of table symbols.
C10_Witness ==
  /\ emitted
  /\ \E i \in 1..Len(members) :
       /\ sorted_values[i] = <<32, 45>>
       /\ members[i] = <<95, 95>>
  /\ \E i \in 1..Len(members) :
       /\ sorted_values[i] = <<43, 45>>
       /\ Len(members[i]) > 2

====
